---- MODULE Spec2Model ----
(***************************************************************************)
(* Flask-LMS-Thai (src/app.py): classes, assignments, submissions, the     *)
(* upload folder and the request handlers that change them.                *)
(*                                                                         *)
(* Strings are sequences of one-character strings.  An optional value      *)
(* (a form field that may be missing, a nullable column) is a sequence of  *)
(* length 0 (None) or 1.                                                   *)
(*                                                                         *)
(* Requests are served concurrently (app.run is threaded, production uses  *)
(* several gunicorn workers).  A handler that reads the database and       *)
(* writes it later is split at the point where another request's commit    *)
(* can come in between; req[w] holds the position and the locals of the    *)
(* request that worker w is serving.                                       *)
(***************************************************************************)
EXTENDS Integers, Sequences, FiniteSets, TLC

VARIABLES backend, classes, assignments, submissions, seq, blobs, req, resp

vars == <<backend, classes, assignments, submissions, seq, blobs, req, resp>>

(* ------------------------------ bounds --------------------------------- *)

\* Largest id a row of each table may get, number of blobs the upload
\* folder may hold, and number of requests served at the same time.
MaxClassId == 2

MaxAssignmentId == 2

MaxSubmissionId == 2

MaxBlobs == 2

NumWorkers == 2

Workers == 1..NumWorkers

(* -------------------------------- schema ------------------------------- *)

\* Lengths of the db.String columns: Class.name, Class.join_code,
\* Assignment.title, Submission.student_name, Submission.filename.
ClassNameLen == 100

JoinCodeLen == 10

TitleLen == 200

StudentNameLen == 100

FilenameLen == 200

(* --------------------------- optional values --------------------------- *)

None == <<>>

Some(v) == <<v>>

IsNone(o) == Len(o) = 0

Val(o) == o[1]

(* ------------------------------- strings ------------------------------- *)

\* The characters of the model: letters, a digit, a character outside ASCII
\* (Thai names are the expected input), and the ones the code treats specially.
Letters == {"a", "d", "f", "t", "p", "x", "A", "D", "F", "P"}

Digits == <<"0", "1", "2", "3", "4", "5", "6", "7", "8", "9">>

DigitSet == {Digits[i] : i \in 1..10}

\* One character outside ASCII (a Thai letter).
NonAscii == "TH"

\* [A-Za-z0-9_.-], the characters werkzeug's secure_filename keeps.
SafeChars == Letters \cup DigitSet \cup {"_", ".", "-"}

\* Characters that survive .encode("ascii", "ignore").
Ascii == SafeChars \cup {" ", "/"}

\* str.lower() / str.upper() on the characters of the model.
LowerChar(c) ==
    CASE c = "A" -> "a" [] c = "D" -> "d" [] c = "F" -> "f" [] c = "P" -> "p" [] OTHER -> c

UpperChar(c) ==
    CASE c = "a" -> "A" [] c = "d" -> "D" [] c = "f" -> "F" [] c = "p" -> "P" [] OTHER -> c

Lower(s) == [i \in 1..Len(s) |-> LowerChar(s[i])]

Upper(s) == [i \in 1..Len(s) |-> UpperChar(s[i])]

Min(a, b) == IF a < b THEN a ELSE b

\* s[:n]
Prefix(s, n) == SubSeq(s, 1, Min(n, Len(s)))

\* sub in s
Contains(s, sub) ==
    \E i \in 1..(Len(s) - Len(sub) + 1) : SubSeq(s, i, i + Len(sub) - 1) = sub

\* s.startswith(pre)
StartsWith(s, pre) == Len(s) >= Len(pre) /\ SubSeq(s, 1, Len(pre)) = pre

\* str(n) for n >= 0
RECURSIVE IntToStr(_)
IntToStr(n) ==
    IF n < 10 THEN <<Digits[n + 1]>>
    ELSE IntToStr(n \div 10) \o <<Digits[(n % 10) + 1]>>

\* Keep the characters of s that are in keep.
FilterChars(s, keep) ==
    LET Kept(c) == c \in keep IN SelectSeq(s, Kept)

\* "_".join(s.split()): runs of blanks become one "_", none at either end.
JoinSplit(s) ==
    LET word == {i \in 1..Len(s) : s[i] # " "}
        glue(i) == i - 1 \notin word /\ \E j \in word : j < i
        parts == [k \in 1..(2 * Len(s)) |->
                     LET i == (k + 1) \div 2
                     IN  IF i \notin word THEN ""
                         ELSE IF k % 2 = 0 THEN s[i]
                         ELSE IF glue(i) THEN "_" ELSE ""]
        Present(c) == c # ""
    IN  SelectSeq(parts, Present)

\* s.strip(chars)
Strip(s, chars) ==
    LET keep == {i \in 1..Len(s) : s[i] \notin chars}
    IN  IF keep = {} THEN <<>>
        ELSE SubSeq(s, CHOOSE i \in keep : \A j \in keep : i <= j,
                       CHOOSE i \in keep : \A j \in keep : j <= i)

\* werkzeug.utils.secure_filename: drop non-ASCII, path separators become
\* blanks, blanks become "_", drop what is not in [A-Za-z0-9_.-], strip "._".
secure_filename(s) ==
    LET ascii == FilterChars(s, Ascii)
        nosep == [i \in 1..Len(ascii) |-> IF ascii[i] = "/" THEN " " ELSE ascii[i]]
        kept == FilterChars(JoinSplit(nosep), SafeChars)
    IN  Strip(kept, {".", "_"})

\* Index of the last "." of s, 0 if there is none.
LastDot(s) ==
    LET dots == {i \in 1..Len(s) : s[i] = "."}
    IN  IF dots = {} THEN 0 ELSE CHOOSE i \in dots : \A j \in dots : j <= i

\* original_filename.rsplit('.', 1)[1].lower() if '.' in original_filename else 'dat'
file_extension(original) ==
    IF LastDot(original) = 0 THEN <<"d", "a", "t">>
    ELSE Lower(SubSeq(original, LastDot(original) + 1, Len(original)))

\* unique_filename without the random token.
unique_filename_NoToken(student_name, assignment_id, token, original) ==
    Prefix(secure_filename(student_name), 20) \o <<"_">> \o IntToStr(assignment_id)
        \o <<".">> \o file_extension(secure_filename(original))

\* f"{secure_filename(student_name)[:20]}_{assignment_id}_{token}.{file_extension}"
unique_filename(student_name, assignment_id, token, original) ==
    Prefix(secure_filename(student_name), 20) \o <<"_">> \o IntToStr(assignment_id)
        \o <<"_">> \o token \o <<".">> \o file_extension(secure_filename(original))

(* ------------------------------- inputs -------------------------------- *)

\* Values of secrets.token_hex(3) and secrets.token_hex(4) (lower-case hex).
TokenHex3 == {<<"a", "1">>, <<"f", "0">>}

TokenHex4 == {<<"0", "a">>, <<"1", "f">>}

\* request.form['class_name'], ['title']
ClassNames == {<<>>, <<"a">>}

Titles == {<<>>, <<"t">>}

\* request.form['student_name']: missing, or a name whose non-ASCII part
\* secure_filename drops.
StudentNames == {<<>>, <<NonAscii, "a">>}

\* A name longer than the student_name column.
LongName == [i \in 1..(StudentNameLen + 1) |-> "x"]

\* request.files['file']: no file part, an empty filename, a named file.
Files == {None, Some(<<>>), Some(<<"f", ".", "P">>)}

FileBytes == {"b1", "b2"}

\* request.form.get(..., type=int): None when missing or not an integer.
MaxScoreInputs == {None, Some(-1), Some(0), Some(20)}

ScoreInputs == {None, Some(-1), Some(0), Some(20), Some(21)}

ClassIdInputs == {None} \cup {Some(i) : i \in 0..MaxClassId}

\* request.form['due_date']: empty or well-formed, or rejected by strptime.
DueDates == {"ok", "bad"}

\* /view_file/<filename>
AttackNames == {<<".", ".", "/", "x">>, <<"/", "x">>, <<"a", ".", ".", "x">>, <<"x">>}

(* -------------------------------- store -------------------------------- *)

Ids(rows) == {r.id : r \in rows}

MaxOf(S) == CHOOSE m \in S : \A n \in S : n <= m

\* The id the database gives the next row of a table.  PostgreSQL draws it
\* from the table's sequence; SQLite's INTEGER PRIMARY KEY is the largest
\* rowid in the table plus one, so the id of a deleted last row is reused.
NextId(rows, table) ==
    IF backend = "postgresql" THEN seq[table] + 1
    ELSE IF rows = {} THEN 1 ELSE MaxOf(Ids(rows)) + 1

\* The sequence after an INSERT was attempted (nextval is not rolled back).
SeqAfterInsert(table) ==
    IF backend = "postgresql" THEN [seq EXCEPT ![table] = @ + 1] ELSE seq

\* db.ForeignKey('class.id') / db.ForeignKey('assignment.id').  PostgreSQL
\* checks them; SQLite does not unless PRAGMA foreign_keys is switched on,
\* which nothing in the application does.
ForeignKeysHold(cs, as, ss) ==
    backend = "postgresql" =>
        /\ \A a \in as : a.class_id \in Ids(cs)
        /\ \A s \in ss : s.assignment_id \in Ids(as)

\* A db.String(n) column: PostgreSQL refuses a longer value (VARCHAR(n)),
\* SQLite stores it.
Fits(value, n) == backend = "postgresql" => Len(value) <= n

\* join_code without unique=True.
JoinCodeFree_NotUnique(code) == TRUE

\* join_code = db.Column(..., unique=True): checked by both databases.
JoinCodeFree(code) == \A c \in classes : c.join_code # code

\* file.save(filepath): writes the file, replacing one of the same name.
SaveBlob(store, name, bytes) ==
    [f \in DOMAIN store \cup {name} |-> IF f = name THEN bytes ELSE store[f]]

\* cascade='all, delete-orphan': the rows db.session.delete marks together
\* with a Class / an Assignment, as loaded when delete is called.
CascadeAssignments(class_id) == {a.id : a \in {x \in assignments : x.class_id = class_id}}

CascadeSubmissions(aids) == {s.id : s \in {x \in submissions : x.assignment_id \in aids}}

Idle == [pc |-> "idle"]

\* A new request goes to the first worker that is idle.
Free(w) == req[w] = Idle /\ \A v \in Workers : v < w => req[v] # Idle

InFlight(pcs) == Cardinality({w \in Workers : req[w].pc \in pcs})

(* -------------------------------- setup -------------------------------- *)

\* setup_db: PostgreSQL gets empty tables; the local SQLite database gets
\* one class with two assignments.
Init ==
    /\ backend \in {"sqlite", "postgresql"}
    /\ seq = [class |-> 0, assignment |-> 0, submission |-> 0]
    /\ IF backend = "postgresql"
       THEN classes = {} /\ assignments = {}
       ELSE /\ \E tok \in TokenHex3 :
                 classes = {[id |-> 1, name |-> <<"a">>, join_code |-> Upper(tok)]}
            /\ assignments = {[id |-> 1, title |-> <<"t">>, max_score |-> 20, class_id |-> 1],
                              [id |-> 2, title |-> <<"t">>, max_score |-> 50, class_id |-> 1]}
    /\ submissions = {}
    /\ blobs = <<>>
    /\ req = [w \in Workers |-> Idle]
    /\ resp = "none"

(* ------------------------- manage_classes: add -------------------------- *)

\* manage_classes, action == 'add', up to db.session.add: an empty name is
\* refused; otherwise the join code is drawn.
AddClassDraw(w, class_name, tok) ==
    /\ Free(w)
    /\ NextId(classes, "class") + InFlight({"add_class_commit"}) <= MaxClassId
    /\ IF class_name = <<>>
       THEN resp' = "error" /\ req' = req
       ELSE /\ req' = [req EXCEPT ![w] = [pc |-> "add_class_commit", name |-> class_name,
                                          join_code |-> Upper(tok)]]
            /\ resp' = resp
    /\ UNCHANGED <<backend, classes, assignments, submissions, seq, blobs>>

\* db.session.commit() of the new Class: the INSERT fails on a join code
\* that is taken or a value too long (not caught: a 500 response).
AddClassCommit(w) ==
    /\ req[w].pc = "add_class_commit"
    /\ IF /\ JoinCodeFree(req[w].join_code)
          /\ Fits(req[w].name, ClassNameLen) /\ Fits(req[w].join_code, JoinCodeLen)
       THEN /\ classes' = classes \cup {[id |-> NextId(classes, "class"), name |-> req[w].name,
                                        join_code |-> req[w].join_code]}
            /\ resp' = "success"
       ELSE classes' = classes /\ resp' = "500"
    /\ seq' = SeqAfterInsert("class")
    /\ req' = [req EXCEPT ![w] = Idle]
    /\ UNCHANGED <<backend, assignments, submissions, blobs>>

(* ------------------------ manage_classes: delete ------------------------ *)

\* Class.query.get and db.session.delete: the class and, by the ORM
\* cascade, the assignments and submissions found under it now.
DeleteClassLoad(w, class_id_to_delete) ==
    /\ Free(w)
    /\ IF IsNone(class_id_to_delete) \/ Val(class_id_to_delete) \notin Ids(classes)
       THEN resp' = "error" /\ req' = req
       ELSE LET aids == CascadeAssignments(Val(class_id_to_delete))
            IN  /\ req' = [req EXCEPT ![w] = [pc |-> "delete_class_commit",
                                              class_id |-> Val(class_id_to_delete),
                                              assignment_ids |-> aids,
                                              submission_ids |-> CascadeSubmissions(aids)]]
                /\ resp' = resp
    /\ UNCHANGED <<backend, classes, assignments, submissions, seq, blobs>>

\* db.session.commit(): one transaction deleting the marked rows by id.  A
\* foreign key still pointing at a deleted row fails it (not caught: 500).
DeleteClassCommit(w) ==
    /\ req[w].pc = "delete_class_commit"
    /\ LET cs == {c \in classes : c.id # req[w].class_id}
           as == {a \in assignments : a.id \notin req[w].assignment_ids}
           ss == {s \in submissions : s.id \notin req[w].submission_ids}
       IN  IF ForeignKeysHold(cs, as, ss)
           THEN classes' = cs /\ assignments' = as /\ submissions' = ss /\ resp' = "warning"
           ELSE UNCHANGED <<classes, assignments, submissions>> /\ resp' = "500"
    /\ req' = [req EXCEPT ![w] = Idle]
    /\ UNCHANGED <<backend, seq, blobs>>

(* ---------------------------- add_assignment ---------------------------- *)

\* add_assignment (POST): one INSERT, no earlier read it depends on.
AddAssignment(w, title, max_score, due_date_str, class_id) ==
    /\ Free(w)
    /\ NextId(assignments, "assignment") <= MaxAssignmentId
    /\ IF \/ title = <<>>
          \/ IsNone(max_score) \/ Val(max_score) = 0
          \/ IsNone(class_id) \/ Val(class_id) = 0
       THEN resp' = "error" /\ UNCHANGED <<assignments, seq>>
       ELSE IF due_date_str = "bad"
       THEN resp' = "error" /\ UNCHANGED <<assignments, seq>>
       ELSE LET new == [id |-> NextId(assignments, "assignment"), title |-> title,
                        max_score |-> Val(max_score), class_id |-> Val(class_id)]
            IN  /\ IF /\ ForeignKeysHold(classes, assignments \cup {new}, submissions)
                      /\ Fits(title, TitleLen)
                   THEN assignments' = assignments \cup {new} /\ resp' = "success"
                   ELSE assignments' = assignments /\ resp' = "error"
                /\ seq' = SeqAfterInsert("assignment")
    /\ UNCHANGED <<backend, classes, submissions, blobs, req>>

(* --------------------------- delete_assignment -------------------------- *)

DeleteAssignmentLoad(w, assignment_id) ==
    /\ Free(w)
    /\ IF assignment_id \notin Ids(assignments)
       THEN resp' = "404" /\ req' = req
       ELSE /\ req' = [req EXCEPT ![w] = [pc |-> "delete_assignment_commit",
                                          assignment_id |-> assignment_id,
                                          submission_ids |-> CascadeSubmissions({assignment_id})]]
            /\ resp' = resp
    /\ UNCHANGED <<backend, classes, assignments, submissions, seq, blobs>>

\* db.session.commit() under try/except: a failure is rolled back.
DeleteAssignmentCommit(w) ==
    /\ req[w].pc = "delete_assignment_commit"
    /\ LET as == {a \in assignments : a.id # req[w].assignment_id}
           ss == {s \in submissions : s.id \notin req[w].submission_ids}
       IN  IF ForeignKeysHold(classes, as, ss)
           THEN assignments' = as /\ submissions' = ss /\ resp' = "warning"
           ELSE UNCHANGED <<assignments, submissions>> /\ resp' = "error"
    /\ req' = [req EXCEPT ![w] = Idle]
    /\ UNCHANGED <<backend, classes, seq, blobs>>

(* --------------------------- submit_submission -------------------------- *)

\* submit_submission up to the computation of filepath.
SubmitLookup(w, assignment_id, student_name, file, tok, bytes) ==
    /\ Free(w)
    /\ NextId(submissions, "submission") + InFlight({"submit_save", "submit_commit"})
           <= MaxSubmissionId
    /\ Cardinality(DOMAIN blobs) + InFlight({"submit_save"}) < MaxBlobs
    /\ IF assignment_id \notin Ids(assignments)
       THEN resp' = "404" /\ req' = req
       ELSE IF student_name = <<>> \/ IsNone(file)
       THEN resp' = "error" /\ req' = req
       ELSE IF Val(file) = <<>>
       THEN resp' = "error" /\ req' = req
       ELSE /\ req' = [req EXCEPT ![w] =
                          [pc |-> "submit_save", assignment_id |-> assignment_id,
                           student_name |-> student_name, bytes |-> bytes, token |-> tok,
                           filename |-> unique_filename(student_name, assignment_id,
                                                        tok, Val(file))]]
            /\ resp' = resp
    /\ UNCHANGED <<backend, classes, assignments, submissions, seq, blobs>>

\* submit_submission without file.save.
SubmitSave_NotSaved(w) ==
    /\ req[w].pc = "submit_save"
    /\ req' = [req EXCEPT ![w].pc = "submit_commit"]
    /\ UNCHANGED <<backend, classes, assignments, submissions, seq, blobs, resp>>

\* file.save(filepath)
SubmitSave(w) ==
    /\ req[w].pc = "submit_save"
    /\ blobs' = SaveBlob(blobs, req[w].filename, req[w].bytes)
    /\ req' = [req EXCEPT ![w].pc = "submit_commit"]
    /\ UNCHANGED <<backend, classes, assignments, submissions, seq, resp>>

\* db.session.add(new_submission); db.session.commit(), outside any try:
\* a failed INSERT is a 500 response.
SubmitCommit(w) ==
    /\ req[w].pc = "submit_commit"
    /\ LET new == [id |-> NextId(submissions, "submission"),
                   student_name |-> req[w].student_name, filename |-> req[w].filename,
                   score |-> None, assignment_id |-> req[w].assignment_id]
       IN  IF /\ ForeignKeysHold(classes, assignments, submissions \cup {new})
              /\ Fits(new.student_name, StudentNameLen) /\ Fits(new.filename, FilenameLen)
           THEN submissions' = submissions \cup {new} /\ resp' = "success"
           ELSE submissions' = submissions /\ resp' = "500"
    /\ seq' = SeqAfterInsert("submission")
    /\ req' = [req EXCEPT ![w] = Idle]
    /\ UNCHANGED <<backend, classes, assignments, blobs>>

(* ---------------------------- grade_submission -------------------------- *)

\* The test of the score without its upper bound, without its lower bound,
\* and without the test for a missing score.
ScoreRejected_NoUpper(score, max_score) == IsNone(score) \/ Val(score) < 0

ScoreRejected_NoLower(score, max_score) == IsNone(score) \/ Val(score) > max_score

ScoreRejected_NoneAccepted(score, max_score) ==
    ~IsNone(score) /\ (Val(score) < 0 \/ Val(score) > max_score)

\* score is None or score < 0 or score > max_score
ScoreRejected(score, max_score) ==
    IsNone(score) \/ Val(score) < 0 \/ Val(score) > max_score

\* grade_submission up to the test of the score.  A submission whose
\* assignment row is gone has assignment_rel None: the AttributeError is
\* caught and reported.
GradeLoad(w, submission_id, score) ==
    /\ Free(w)
    /\ IF submission_id \notin Ids(submissions)
       THEN resp' = "404" /\ req' = req
       ELSE LET submission == CHOOSE s \in submissions : s.id = submission_id
                owners == {a \in assignments : a.id = submission.assignment_id}
            IN  IF owners = {}
                THEN resp' = "error" /\ req' = req
                ELSE /\ req' = [req EXCEPT ![w] =
                                   [pc |-> IF ScoreRejected(score, (CHOOSE a \in owners : TRUE).max_score)
                                           THEN "grade_reject" ELSE "grade_commit",
                                    submission_id |-> submission_id, score |-> score]]
                     /\ resp' = resp
    /\ UNCHANGED <<backend, classes, assignments, submissions, seq, blobs>>

\* The branch of a refused score: nothing but the flash message.
GradeReject(w) ==
    /\ req[w].pc = "grade_reject"
    /\ resp' = "error"
    /\ req' = [req EXCEPT ![w] = Idle]
    /\ UNCHANGED <<backend, classes, assignments, submissions, seq, blobs>>

\* submission.score = score; db.session.commit(): UPDATE submission SET
\* score WHERE id.  No row with
\* that id any more is an error, caught and rolled back.
GradeCommit(w) ==
    /\ req[w].pc = "grade_commit"
    /\ IF req[w].submission_id \in Ids(submissions)
       THEN /\ submissions' = {IF s.id = req[w].submission_id
                               THEN [s EXCEPT !.score = req[w].score] ELSE s
                               : s \in submissions}
            /\ resp' = "success"
       ELSE submissions' = submissions /\ resp' = "error"
    /\ req' = [req EXCEPT ![w] = Idle]
    /\ UNCHANGED <<backend, classes, assignments, seq, blobs>>

(* -------------------------------- view_file ----------------------------- *)

\* The traversal test looking for "../" in front only.
Traversal_FrontOnly(filename) ==
    StartsWith(filename, <<".", ".", "/">>) \/ StartsWith(filename, <<"/">>)

\* '..' in filename or filename.startswith('/')
Traversal(filename) == Contains(filename, <<".", ".">>) \/ StartsWith(filename, <<"/">>)

\* view_file: the traversal check.
ViewFileCheck(w, filename) ==
    /\ Free(w)
    /\ req' = [req EXCEPT ![w] = [pc |-> IF Traversal(filename) THEN "abort"
                                         ELSE "send_from_directory",
                                  filename |-> filename]]
    /\ UNCHANGED <<backend, classes, assignments, submissions, seq, blobs, resp>>

\* abort(404)
ViewFileAbort(w) ==
    /\ req[w].pc = "abort"
    /\ resp' = "404"
    /\ req' = [req EXCEPT ![w] = Idle]
    /\ UNCHANGED <<backend, classes, assignments, submissions, seq, blobs>>

\* send_from_directory(app.config['UPLOAD_FOLDER'], filename): the lookup
\* in the upload folder.
ViewFileSend(w) ==
    /\ req[w].pc = "send_from_directory"
    /\ resp' = IF req[w].filename \in DOMAIN blobs THEN "file" ELSE "404"
    /\ req' = [req EXCEPT ![w] = Idle]
    /\ UNCHANGED <<backend, classes, assignments, submissions, seq, blobs>>

(* ------------------------------------------------------------------------ *)

\* Creating and deleting classes, assignments and submissions, and grading.
Next ==
    \/ \E w \in Workers, n \in ClassNames : AddClassDraw(w, n, <<"a", "1">>)
    \/ \E w \in Workers : AddClassCommit(w)
    \/ \E w \in Workers, c \in ClassIdInputs : DeleteClassLoad(w, c)
    \/ \E w \in Workers : DeleteClassCommit(w)
    \/ \E w \in Workers, t \in Titles, m \in {None, Some(0), Some(20)}, d \in DueDates,
          c \in ClassIdInputs : AddAssignment(w, t, m, d, c)
    \/ \E w \in Workers, a \in 1..MaxAssignmentId : DeleteAssignmentLoad(w, a)
    \/ \E w \in Workers : DeleteAssignmentCommit(w)
    \/ \E w \in Workers, a \in 1..MaxAssignmentId, n \in StudentNames, f \in Files :
          SubmitLookup(w, a, n, f, <<"0", "a">>, "b1")
    \/ \E w \in Workers : SubmitSave(w)
    \/ \E w \in Workers : SubmitCommit(w)
    \/ \E w \in Workers, s \in 1..MaxSubmissionId : GradeLoad(w, s, Some(20))
    \/ \E w \in Workers : GradeCommit(w)

Spec == Init /\ [][Next]_vars

\* Creating and deleting classes.
NextClasses ==
    \/ \E w \in Workers, n \in ClassNames, t \in TokenHex3 : AddClassDraw(w, n, t)
    \/ \E w \in Workers : AddClassCommit(w)
    \/ \E w \in Workers, c \in ClassIdInputs : DeleteClassLoad(w, c)
    \/ \E w \in Workers : DeleteClassCommit(w)
    \/ \E w \in Workers, t \in Titles, m \in {None, Some(20)}, d \in DueDates,
          c \in ClassIdInputs : AddAssignment(w, t, m, d, c)

SpecClasses == Init /\ [][NextClasses]_vars

\* Creating assignments and submissions and grading them.
NextGrade ==
    \/ \E w \in Workers, n \in ClassNames : AddClassDraw(w, n, <<"a", "1">>)
    \/ \E w \in Workers : AddClassCommit(w)
    \/ \E w \in Workers, t \in Titles, m \in MaxScoreInputs, d \in DueDates,
          c \in ClassIdInputs : AddAssignment(w, t, m, d, c)
    \/ \E w \in Workers, a \in 1..MaxAssignmentId, n \in StudentNames, f \in Files :
          SubmitLookup(w, a, n, f, <<"0", "a">>, "b1")
    \/ \E w \in Workers : SubmitSave(w)
    \/ \E w \in Workers : SubmitCommit(w)
    \/ \E w \in Workers, s \in 1..MaxSubmissionId, v \in ScoreInputs : GradeLoad(w, s, v)
    \/ \E w \in Workers : GradeReject(w)
    \/ \E w \in Workers : GradeCommit(w)

SpecGrade == Init /\ [][NextGrade]_vars

\* Grading while assignments are deleted.
NextRegrade ==
    \/ \E w \in Workers, n \in ClassNames : AddClassDraw(w, n, <<"a", "1">>)
    \/ \E w \in Workers : AddClassCommit(w)
    \/ \E w \in Workers, t \in Titles, m \in {None, Some(20)}, d \in DueDates,
          c \in ClassIdInputs : AddAssignment(w, t, m, d, c)
    \/ \E w \in Workers, a \in 1..MaxAssignmentId : DeleteAssignmentLoad(w, a)
    \/ \E w \in Workers : DeleteAssignmentCommit(w)
    \/ \E w \in Workers, a \in 1..MaxAssignmentId, n \in StudentNames, f \in Files :
          SubmitLookup(w, a, n, f, <<"0", "a">>, "b1")
    \/ \E w \in Workers : SubmitSave(w)
    \/ \E w \in Workers : SubmitCommit(w)
    \/ \E w \in Workers, s \in 1..MaxSubmissionId, v \in {None, Some(-1), Some(20), Some(21)} :
          GradeLoad(w, s, v)
    \/ \E w \in Workers : GradeReject(w)
    \/ \E w \in Workers : GradeCommit(w)

SpecRegrade == Init /\ [][NextRegrade]_vars

\* Uploading files.
NextUpload ==
    \/ \E w \in Workers, n \in ClassNames : AddClassDraw(w, n, <<"a", "1">>)
    \/ \E w \in Workers : AddClassCommit(w)
    \/ \E w \in Workers, t \in Titles, m \in {None, Some(20)}, d \in DueDates,
          c \in ClassIdInputs : AddAssignment(w, t, m, d, c)
    \/ \E w \in Workers, a \in 1..MaxAssignmentId, n \in StudentNames \cup {LongName},
          f \in Files, t \in TokenHex4, b \in FileBytes : SubmitLookup(w, a, n, f, t, b)
    \/ \E w \in Workers : SubmitSave(w)
    \/ \E w \in Workers : SubmitCommit(w)

SpecUpload == Init /\ [][NextUpload]_vars

\* Uploading and downloading files.
NextView ==
    \/ \E w \in Workers, n \in ClassNames : AddClassDraw(w, n, <<"a", "1">>)
    \/ \E w \in Workers : AddClassCommit(w)
    \/ \E w \in Workers, t \in Titles, m \in {None, Some(20)}, d \in DueDates,
          c \in ClassIdInputs : AddAssignment(w, t, m, d, c)
    \/ \E w \in Workers, a \in 1..MaxAssignmentId, n \in StudentNames, f \in Files,
          b \in FileBytes : SubmitLookup(w, a, n, f, <<"0", "a">>, b)
    \/ \E w \in Workers : SubmitSave(w)
    \/ \E w \in Workers : SubmitCommit(w)
    \/ \E w \in Workers, f \in AttackNames \cup DOMAIN blobs : ViewFileCheck(w, f)
    \/ \E w \in Workers : ViewFileAbort(w)
    \/ \E w \in Workers : ViewFileSend(w)

SpecView == Init /\ [][NextView]_vars

(* ================================ claims ================================ *)

Row(rows, id) == CHOOSE r \in rows : r.id = id

\* The request of worker w ends in this step.
Ends(w, pc) == req[w].pc = pc /\ req'[w] = Idle

\* C1: in every reachable state every Submission's assignment_id is the id
\* of an existing Assignment and every Assignment's class_id is the id of
\* an existing Class.
C1_ReferentialIntegrity ==
    /\ \A s \in submissions : s.assignment_id \in Ids(assignments)
    /\ \A a \in assignments : a.class_id \in Ids(classes)

\* C2: a deleteClass that deletes an existing Class removes in that step
\* exactly the Class, the Assignments of the Class and the Submissions of
\* those Assignments, and leaves no row that references a deleted id.
C2_DeleteClassCascade ==
    [][\A w \in Workers :
          (Ends(w, "delete_class_commit") /\ classes' # classes) =>
              LET gone == {a \in assignments : a.class_id = req[w].class_id}
                  under == {s \in submissions : s.assignment_id \in Ids(gone)}
              IN  /\ classes' = {c \in classes : c.id # req[w].class_id}
                  /\ assignments' = assignments \ gone
                  /\ submissions' = submissions \ under
                  /\ \A a \in assignments' : a.class_id # req[w].class_id
                  /\ \A s \in submissions' : s.assignment_id \notin Ids(gone)]_vars

\* C3: every Submission with a score has 0 <= score <= max_score of the
\* Assignment it belongs to.
C3_ScoreInRange ==
    \A s \in submissions : \A a \in assignments :
        (a.id = s.assignment_id /\ s.score # None) =>
            (0 <= Val(s.score) /\ Val(s.score) <= a.max_score)

\* A score equal to max_score has been accepted, and a submission exists
\* under an assignment whose max_score is negative.
C3_Witness ==
    /\ \E s \in submissions : \E a \in assignments :
          a.id = s.assignment_id /\ s.score = Some(a.max_score)
    /\ \E s \in submissions : \E a \in assignments :
          a.id = s.assignment_id /\ a.max_score < 0

\* C4: grading an existing Submission with a score below 0 or above the
\* max_score of its Assignment takes the refusing branch, which answers
\* with an error and changes neither that Submission's score nor any other
\* record or blob.
C4_RejectedGradeChangesNothing ==
    [][\A w \in Workers :
          /\ (req[w] = Idle /\ req'[w].pc \in {"grade_commit", "grade_reject"}) =>
                LET score == req'[w].score
                    a == Row(assignments, Row(submissions, req'[w].submission_id).assignment_id)
                IN  (score # None /\ (Val(score) < 0 \/ Val(score) > a.max_score))
                        => req'[w].pc = "grade_reject"
          /\ Ends(w, "grade_reject") =>
                /\ resp' = "error"
                /\ UNCHANGED <<classes, assignments, submissions, blobs>>]_vars

\* A grading with a score out of range is being refused for a Submission
\* that already has a score.
C4_Witness ==
    \E w \in Workers :
        /\ req[w].pc = "grade_reject"
        /\ req[w].score # None
        /\ \E s \in submissions : s.id = req[w].submission_id /\ s.score # None

\* C5: no two Classes have the same join_code.
C5_UniqueJoinCodes ==
    \A c \in classes : \A d \in classes : c.join_code = d.join_code => c.id = d.id

\* A createClass request is about to commit a join code that an existing
\* Class has: the code was drawn twice.
C5_Witness ==
    \E w \in Workers :
        /\ req[w].pc = "add_class_commit"
        /\ \E c \in classes : c.join_code = req[w].join_code

\* C6: a createSubmission that fails leaves no blob behind: every blob in
\* the upload folder is the file of a Submission record or of an upload
\* whose record is still to be committed (no Submission is deleted in
\* SpecUpload).
C6_FailedUploadLeavesNothing ==
    \A f \in DOMAIN blobs :
        \/ \E s \in submissions : s.filename = f
        \/ \E w \in Workers : req[w].pc = "submit_commit" /\ req[w].filename = f

\* The token of a stored filename: what stands between the last "_" before
\* the extension and the ".".
TokenPart(f) ==
    LET bars == {i \in 1..(LastDot(f) - 1) : f[i] = "_"}
    IN  IF bars = {} THEN <<>>
        ELSE SubSeq(f, (CHOOSE i \in bars : \A j \in bars : j <= i) + 1, LastDot(f) - 1)

\* C7: any two Submission records have different stored filenames.
C7_DistinctFilenames ==
    \A s \in submissions : \A t \in submissions : s.filename = t.filename => s.id = t.id

\* C7, for a token not in use: an upload whose token is not the token of a filename
\* already stored gets a filename that no blob and no Submission has, and
\* its save leaves every existing blob as it is; every committed upload adds
\* exactly one record with a new id; and an upload for an assignment and a
\* student_name that already have a record is committed all the same.
C7_FreshTokenFreshName ==
    [][\A w \in Workers :
          /\ (req[w].pc = "submit_save" /\ req'[w].pc = "submit_commit") =>
                ((\A f \in DOMAIN blobs : TokenPart(f) # req[w].token) =>
                     /\ req[w].filename \notin DOMAIN blobs
                     /\ \A f \in DOMAIN blobs : f \in DOMAIN blobs' /\ blobs'[f] = blobs[f])
          /\ (Ends(w, "submit_commit") /\ submissions' # submissions) =>
                \E new \in submissions' :
                    /\ submissions' = submissions \cup {new}
                    /\ new.id \notin Ids(submissions)
                    /\ new.filename = req[w].filename
                    /\ \A s \in submissions :
                          TokenPart(s.filename) # req[w].token => s.filename # new.filename
          /\ (Ends(w, "submit_commit") /\ \E s \in submissions :
                    /\ s.student_name = req[w].student_name
                    /\ s.assignment_id = req[w].assignment_id) =>
                Cardinality(submissions') = Cardinality(submissions) + 1]_vars

\* Two Submissions of the same student_name for the same assignment, stored
\* under two filenames, each with its blob.
C7_Witness ==
    \E s \in submissions : \E t \in submissions :
        /\ s.id # t.id
        /\ s.student_name = t.student_name /\ s.assignment_id = t.assignment_id
        /\ s.filename # t.filename
        /\ {s.filename, t.filename} \subseteq DOMAIN blobs

\* A name with ".." in it or "/" in front.
HasDotDot(f) == \E i \in 1..(Len(f) - 1) : f[i] = "." /\ f[i + 1] = "."

LeadingSeparator(f) == Len(f) >= 1 /\ f[1] = "/"

\* C8: a filename that contains ".." or starts with "/" goes to abort(404),
\* which answers 404 and touches nothing; the lookup in the upload folder
\* is never reached with such a name.
C8_TraversalRejected ==
    [][\A w \in Workers :
          /\ (req[w] = Idle /\ req'[w].pc \in {"abort", "send_from_directory"}
                  /\ (HasDotDot(req'[w].filename) \/ LeadingSeparator(req'[w].filename)))
                => req'[w].pc = "abort"
          /\ Ends(w, "abort") => (resp' = "404" /\ blobs' = blobs)
          /\ req[w].pc = "send_from_directory" =>
                ~(HasDotDot(req[w].filename) \/ LeadingSeparator(req[w].filename))]_vars

\* Both kinds of name are being refused while the upload folder holds files.
C8_Witness ==
    /\ DOMAIN blobs # {}
    /\ \A w \in Workers : req[w].pc = "abort"
    /\ \E w \in Workers : HasDotDot(req[w].filename)
    /\ \E w \in Workers : LeadingSeparator(req[w].filename) /\ ~HasDotDot(req[w].filename)

\* C9: a new Submission has no score; the score of an existing Submission
\* changes only in the commit of a grading, to the score of that grading,
\* which is not None; so a score once set is never None again.
C9_ScoreOneWay ==
    [][\A t \in submissions' :
          IF t.id \in Ids(submissions)
          THEN LET s == Row(submissions, t.id)
               IN  /\ s.score # None => t.score # None
                   /\ t.score # s.score =>
                         \E w \in Workers :
                             /\ Ends(w, "grade_commit")
                             /\ req[w].submission_id = t.id
                             /\ req[w].score = t.score /\ t.score # None
          ELSE t.score = None]_vars

\* A graded Submission for which another score is about to be committed,
\* and one for which a grading without a score is being refused.
C9_Witness ==
    /\ \E w \in Workers : \E s \in submissions :
          /\ req[w].pc = "grade_commit" /\ req[w].submission_id = s.id
          /\ s.score # None /\ s.score # req[w].score
    /\ \E w \in Workers : \E s \in submissions :
          /\ req[w].pc = "grade_reject" /\ req[w].submission_id = s.id
          /\ s.score # None /\ req[w].score = None

\* C10: the filename of every Submission record names a blob in the upload
\* folder.
C10_BlobPresent == \A s \in submissions : s.filename \in DOMAIN blobs

\* A graded Submission with its blob, next to the blob of a Submission that
\* was deleted with its assignment.
C10_Witness ==
    /\ \E s \in submissions : s.score # None /\ s.filename \in DOMAIN blobs
    /\ \E f \in DOMAIN blobs : \A s \in submissions : s.filename # f

====
